---------------------------- MODULE Spec2Model ----------------------------
(***************************************************************************)
(* A model of acorn's AST walker (src/walk/index.js) and of the node       *)
(* lifecycle functions startNodeAt / finishNodeAt (node.js).               *)
(*                                                                         *)
(* The walker's continuation `c` is a recursive JavaScript closure.  It is *)
(* modelled as an explicit call stack: entering `c` on a (node, override)  *)
(* pair is one step, the return of the registry entry base[type] (followed *)
(* by whatever `c` does after it) is another.  A registry entry only calls *)
(* the continuation on a fixed list of (child, override) pairs, so a frame *)
(* holds the calls its entry has still to make.                            *)
(***************************************************************************)
EXTENDS Integers, Sequences, FiniteSets, TLC

(***************************************************************************)
(* Bounds of the model.                                                    *)
(***************************************************************************)
NumFixtures == 4     \* trees 1..NumFixtures are walked
MaxRegistries == 2   \* registries derived by make in the registry specification
MaxWarnings == 2     \* deprecation messages written before the parser is left alone
MaxOffset == 1       \* source offsets 0..MaxOffset given to the node functions

(***************************************************************************)
(* JavaScript values.                                                      *)
(***************************************************************************)
NoNode == 0               \* null / undefined in a child field
NoOverride == ""          \* an absent `override` argument (falsy)
Null == -1                \* null given as a bound of findNodeAt
Undefined == -1           \* undefined `loc`, unset offsets of a node

(***************************************************************************)
(* Input trees, as acorn parses the source text named above each.  A tree  *)
(* is a sequence of nodes, a node's identity is its index; child fields    *)
(* hold indices (NoNode for null).  Node 1 is the Program.                 *)
(***************************************************************************)

\* if(a)b(c);else d
Tree1 ==
  << [type |-> "Program", start |-> 0, end |-> 16, body |-> <<2>>],
     [type |-> "IfStatement", start |-> 0, end |-> 16,
      test |-> 3, consequent |-> 4, alternate |-> 8],
     [type |-> "Identifier", start |-> 3, end |-> 4],
     [type |-> "ExpressionStatement", start |-> 5, end |-> 10, expression |-> 5],
     [type |-> "CallExpression", start |-> 5, end |-> 9,
      callee |-> 6, arguments |-> <<7>>],
     [type |-> "Identifier", start |-> 5, end |-> 6],
     [type |-> "Identifier", start |-> 7, end |-> 8],
     [type |-> "ExpressionStatement", start |-> 15, end |-> 16, expression |-> 9],
     [type |-> "Identifier", start |-> 15, end |-> 16] >>

\* function f({a:b}){}
Tree2 ==
  << [type |-> "Program", start |-> 0, end |-> 19, body |-> <<2>>],
     [type |-> "FunctionDeclaration", start |-> 0, end |-> 19,
      id |-> 3, params |-> <<4>>, body |-> 8, expression |-> FALSE],
     [type |-> "Identifier", start |-> 9, end |-> 10],
     [type |-> "ObjectPattern", start |-> 11, end |-> 16, properties |-> <<5>>],
     [type |-> "Property", start |-> 12, end |-> 15,
      key |-> 6, value |-> 7, computed |-> FALSE],
     [type |-> "Identifier", start |-> 12, end |-> 13],
     [type |-> "Identifier", start |-> 14, end |-> 15],
     [type |-> "BlockStatement", start |-> 17, end |-> 19, body |-> <<>>] >>

\* f(g(x)).y
Tree3 ==
  << [type |-> "Program", start |-> 0, end |-> 9, body |-> <<2>>],
     [type |-> "ExpressionStatement", start |-> 0, end |-> 9, expression |-> 3],
     [type |-> "MemberExpression", start |-> 0, end |-> 9,
      object |-> 4, property |-> 9, computed |-> FALSE],
     [type |-> "CallExpression", start |-> 0, end |-> 7,
      callee |-> 5, arguments |-> <<6>>],
     [type |-> "Identifier", start |-> 0, end |-> 1],
     [type |-> "CallExpression", start |-> 2, end |-> 6,
      callee |-> 7, arguments |-> <<8>>],
     [type |-> "Identifier", start |-> 2, end |-> 3],
     [type |-> "Identifier", start |-> 4, end |-> 5],
     [type |-> "Identifier", start |-> 8, end |-> 9] >>

\* a.b;var c;d()
Tree4 ==
  << [type |-> "Program", start |-> 0, end |-> 13, body |-> <<2, 6, 9>>],
     [type |-> "ExpressionStatement", start |-> 0, end |-> 4, expression |-> 3],
     [type |-> "MemberExpression", start |-> 0, end |-> 3,
      object |-> 4, property |-> 5, computed |-> FALSE],
     [type |-> "Identifier", start |-> 0, end |-> 1],
     [type |-> "Identifier", start |-> 2, end |-> 3],
     [type |-> "VariableDeclaration", start |-> 4, end |-> 10, declarations |-> <<7>>],
     [type |-> "VariableDeclarator", start |-> 8, end |-> 9, id |-> 8, init |-> NoNode],
     [type |-> "Identifier", start |-> 8, end |-> 9],
     [type |-> "ExpressionStatement", start |-> 10, end |-> 13, expression |-> 10],
     [type |-> "CallExpression", start |-> 10, end |-> 13,
      callee |-> 11, arguments |-> <<>>],
     [type |-> "Identifier", start |-> 10, end |-> 11] >>

\* while(a)b:{c[d]}
Tree5 ==
  << [type |-> "Program", start |-> 0, end |-> 16, body |-> <<2>>],
     [type |-> "WhileStatement", start |-> 0, end |-> 16, test |-> 3, body |-> 4],
     [type |-> "Identifier", start |-> 6, end |-> 7],
     [type |-> "LabeledStatement", start |-> 8, end |-> 16, label |-> 5, body |-> 6],
     [type |-> "Identifier", start |-> 8, end |-> 9],
     [type |-> "BlockStatement", start |-> 10, end |-> 16, body |-> <<7>>],
     [type |-> "ExpressionStatement", start |-> 11, end |-> 15, expression |-> 8],
     [type |-> "MemberExpression", start |-> 11, end |-> 15,
      object |-> 9, property |-> 10, computed |-> TRUE],
     [type |-> "Identifier", start |-> 11, end |-> 12],
     [type |-> "Identifier", start |-> 13, end |-> 14] >>

Fixture(i) ==
  CASE i = 1 -> Tree1
    [] i = 2 -> Tree2
    [] i = 3 -> Tree3
    [] i = 4 -> Tree4
    [] OTHER -> Tree5

Root == 1

(***************************************************************************)
(* The tree itself: every node-valued field of a node, whether or not a    *)
(* registry entry dispatches it (ESTree field sets of the node types the   *)
(* input trees use).                                                       *)
(***************************************************************************)
SeqToSet(s) == {s[i] : i \in DOMAIN s}

ChildNodes(tree, n) ==
  LET node == tree[n]
      t == node.type
  IN  (CASE t \in {"Program", "BlockStatement"} -> SeqToSet(node.body)
        [] t = "IfStatement" -> {node.test, node.consequent, node.alternate}
        [] t = "ExpressionStatement" -> {node.expression}
        [] t = "CallExpression" -> {node.callee} \cup SeqToSet(node.arguments)
        [] t = "MemberExpression" -> {node.object, node.property}
        [] t = "FunctionDeclaration" ->
             {node.id, node.body} \cup SeqToSet(node.params)
        [] t = "ObjectPattern" -> SeqToSet(node.properties)
        [] t = "Property" -> {node.key, node.value}
        [] t = "VariableDeclaration" -> SeqToSet(node.declarations)
        [] t = "VariableDeclarator" -> {node.id, node.init}
        [] t = "WhileStatement" -> {node.test, node.body}
        [] t = "LabeledStatement" -> {node.label, node.body}
        [] OTHER -> {}) \ {NoNode}

RECURSIVE Subtree(_, _)
Subtree(tree, n) ==
  {n} \cup UNION {Subtree(tree, k) : k \in ChildNodes(tree, n)}

Descendants(tree, n) == Subtree(tree, n) \ {n}

RECURSIVE Depth(_, _)
Depth(tree, n) ==
  IF n = Root THEN 1
  ELSE Depth(tree, CHOOSE p \in DOMAIN tree : n \in ChildNodes(tree, p)) + 1

\* Section 3 of the specification: a child's interval lies in its parent's.
WellFormed(tree) ==
  \A n \in DOMAIN tree :
    /\ tree[n].start <= tree[n].end
    /\ \A k \in ChildNodes(tree, n) :
         tree[n].start <= tree[k].start /\ tree[k].end <= tree[n].end

(***************************************************************************)
(* The grammar dispatch table `base`.  Base(tree, n, type) is the sequence *)
(* of continuation calls <<child, override>> that base[type](node, st, c)  *)
(* makes, in order.                                                        *)
(***************************************************************************)
moduleDeclarationTypes ==
  {"ImportDeclaration", "ExportNamedDeclaration",
   "ExportDefaultDeclaration", "ExportAllDeclaration"}

declarationTypes ==
  {"VariableDeclaration", "FunctionDeclaration", "ClassDeclaration"}

\* c(child, st, ov)
One(child, ov) == << <<child, ov>> >>
\* if (child) c(child, st, ov)
Opt(child, ov) == IF child = NoNode THEN <<>> ELSE One(child, ov)
\* for (let x of list) c(x, st, ov)
Each(list, ov) == [i \in DOMAIN list |-> <<list[i], ov>>]
\* for (let x of list) if (x) c(x, st, ov)
EachPresent(list, ov) == Each(SelectSeq(list, LAMBDA x : x # NoNode), ov)

skipThrough(n) == One(n, NoOverride)
ignore == <<>>

BaseTypes ==
  {"Program", "BlockStatement", "Statement", "EmptyStatement",
   "ExpressionStatement", "ParenthesizedExpression", "IfStatement",
   "LabeledStatement", "BreakStatement", "ContinueStatement", "WithStatement",
   "SwitchStatement", "SwitchCase", "ReturnStatement", "YieldExpression",
   "AwaitExpression", "ThrowStatement", "SpreadElement", "TryStatement",
   "CatchClause", "WhileStatement", "DoWhileStatement", "ForStatement",
   "ForInStatement", "ForOfStatement", "ForInit", "DebuggerStatement",
   "Declaration", "FunctionDeclaration", "VariableDeclaration",
   "VariableDeclarator", "Function", "ScopeBody", "ScopeExpression",
   "Pattern", "RestElement", "ArrayPattern", "ObjectPattern", "Expression",
   "ThisExpression", "Super", "MetaProperty", "ArrayExpression",
   "ObjectExpression", "FunctionExpression", "ArrowFunctionExpression",
   "TemplateLiteral", "TemplateElement", "SequenceExpression",
   "UnaryExpression", "UpdateExpression", "BinaryExpression",
   "LogicalExpression", "AssignmentExpression", "AssignmentPattern",
   "ConditionalExpression", "NewExpression", "CallExpression",
   "MemberExpression", "ModuleDeclaration", "ExportDefaultDeclaration",
   "ExportNamedDeclaration", "ExportAllDeclaration", "ImportDeclaration",
   "ModuleSpecifier", "ImportSpecifier", "ImportDefaultSpecifier",
   "ImportNamespaceSpecifier", "ExportSpecifier", "Identifier", "Literal",
   "TaggedTemplateExpression", "ClassDeclaration", "ClassExpression", "Class",
   "ClassBody", "MethodDefinition", "Property"}

Base(tree, n, type) ==
  LET node == tree[n] IN
  CASE type = "Program" ->
         [i \in DOMAIN node.body |->
            <<node.body[i],
              IF tree[node.body[i]].type \in moduleDeclarationTypes
              THEN "ModuleDeclaration" ELSE "Statement">>]
    [] type = "BlockStatement" -> Each(node.body, "Statement")
    [] type = "Statement" ->
         IF node.type \in declarationTypes
         THEN One(n, "Declaration") ELSE One(n, NoOverride)
    [] type = "EmptyStatement" -> ignore
    [] type \in {"ExpressionStatement", "ParenthesizedExpression"} ->
         One(node.expression, "Expression")
    [] type = "IfStatement" ->
         One(node.test, "Expression") \o One(node.consequent, "Statement")
           \o Opt(node.alternate, "Statement")
    [] type = "LabeledStatement" -> One(node.body, "Statement")
    [] type \in {"BreakStatement", "ContinueStatement"} -> ignore
    [] type = "WithStatement" ->
         One(node.object, "Expression") \o One(node.body, "Statement")
    [] type = "SwitchStatement" ->
         One(node.discriminant, "Expression") \o Each(node.cases, "SwitchCase")
    [] type = "SwitchCase" ->
         Opt(node.test, "Expression") \o Each(node.consequent, "Statement")
    [] type \in {"ReturnStatement", "YieldExpression", "AwaitExpression"} ->
         Opt(node.argument, "Expression")
    [] type \in {"ThrowStatement", "SpreadElement"} ->
         One(node.argument, "Expression")
    [] type = "TryStatement" ->
         One(node.block, "Statement") \o Opt(node.handler, NoOverride)
           \o Opt(node.finalizer, "Statement")
    [] type = "CatchClause" ->
         One(node.param, "Pattern") \o One(node.body, "ScopeBody")
    [] type \in {"WhileStatement", "DoWhileStatement"} ->
         One(node.test, "Expression") \o One(node.body, "Statement")
    [] type = "ForStatement" ->
         Opt(node.init, "ForInit") \o Opt(node.test, "Expression")
           \o Opt(node.update, "Expression") \o One(node.body, "Statement")
    [] type \in {"ForInStatement", "ForOfStatement"} ->
         One(node.left, "ForInit") \o One(node.right, "Expression")
           \o One(node.body, "Statement")
    [] type = "ForInit" ->
         IF node.type = "VariableDeclaration"
         THEN One(n, NoOverride) ELSE One(n, "Expression")
    [] type = "DebuggerStatement" -> ignore
    [] type = "Declaration" -> skipThrough(n)
    [] type \in {"FunctionDeclaration", "FunctionExpression",
                 "ArrowFunctionExpression"} -> One(n, "Function")
    [] type = "VariableDeclaration" -> Each(node.declarations, NoOverride)
    [] type = "VariableDeclarator" ->
         One(node.id, "Pattern") \o Opt(node.init, "Expression")
    [] type = "Function" ->
         Opt(node.id, "Pattern") \o Each(node.params, "Pattern")
           \o One(node.body,
                  IF node.expression THEN "ScopeExpression" ELSE "ScopeBody")
    [] type = "ScopeBody" -> One(n, "Statement")
    [] type = "ScopeExpression" -> One(n, "Expression")
    [] type = "Pattern" ->
         IF node.type = "Identifier" \/ node.type = "MemberExpression"
         THEN One(n, "Expression") ELSE One(n, NoOverride)
    [] type = "RestElement" -> One(node.argument, "Pattern")
    [] type = "ArrayPattern" -> EachPresent(node.elements, "Pattern")
    [] type = "ObjectPattern" ->
         [i \in DOMAIN node.properties |->
            <<tree[node.properties[i]].value, "Pattern">>]
    [] type = "Expression" -> skipThrough(n)
    [] type \in {"ThisExpression", "Super", "MetaProperty"} -> ignore
    [] type = "ArrayExpression" -> EachPresent(node.elements, "Expression")
    [] type = "ObjectExpression" -> Each(node.properties, NoOverride)
    [] type = "TemplateLiteral" ->
         Each(node.quasis, NoOverride) \o Each(node.expressions, "Expression")
    [] type = "TemplateElement" -> ignore
    [] type = "SequenceExpression" -> Each(node.expressions, "Expression")
    [] type \in {"UnaryExpression", "UpdateExpression"} ->
         One(node.argument, "Expression")
    [] type \in {"BinaryExpression", "LogicalExpression"} ->
         One(node.left, "Expression") \o One(node.right, "Expression")
    [] type \in {"AssignmentExpression", "AssignmentPattern"} ->
         One(node.left, "Pattern") \o One(node.right, "Expression")
    [] type = "ConditionalExpression" ->
         One(node.test, "Expression") \o One(node.consequent, "Expression")
           \o One(node.alternate, "Expression")
    [] type \in {"NewExpression", "CallExpression"} ->
         One(node.callee, "Expression") \o Each(node.arguments, "Expression")
    [] type = "MemberExpression" ->
         One(node.object, "Expression")
           \o (IF node.computed THEN One(node.property, "Expression") ELSE <<>>)
    [] type = "ModuleDeclaration" -> skipThrough(n)
    [] type = "ExportDefaultDeclaration" ->
         IF tree[node.declaration].type \in declarationTypes
         THEN One(node.declaration, "Declaration")
         ELSE One(node.declaration, "Expression")
    [] type = "ExportNamedDeclaration" ->
         Opt(node.declaration, "Declaration")
           \o Each(node.specifiers, "ModuleSpecifier")
           \o Opt(node.source, "Expression")
    [] type = "ExportAllDeclaration" -> One(node.source, "Expression")
    [] type = "ImportDeclaration" ->
         Each(node.specifiers, "ModuleSpecifier")
           \o One(node.source, "Expression")
    [] type = "ModuleSpecifier" -> skipThrough(n)
    [] type \in {"ImportSpecifier", "ImportDefaultSpecifier",
                 "ImportNamespaceSpecifier", "ExportSpecifier", "Identifier",
                 "Literal"} -> ignore
    [] type = "TaggedTemplateExpression" ->
         One(node.tag, "Expression") \o One(node.quasi, NoOverride)
    [] type \in {"ClassDeclaration", "ClassExpression"} -> One(n, "Class")
    [] type = "Class" ->
         Opt(node.id, "Pattern") \o Opt(node.superClass, "Expression")
           \o One(node.body, "ClassBody")
    [] type = "ClassBody" -> Each(node.body, NoOverride)
    [] type \in {"MethodDefinition", "Property"} ->
         (IF node.computed THEN One(node.key, "Expression") ELSE <<>>)
           \o One(node.value, "Expression")

\* let type = override || node.type
TypeOf(tree, n, override) ==
  IF override # NoOverride THEN override ELSE tree[n].type

(***************************************************************************)
(* Registries.  A JavaScript object is a heap cell with a prototype link   *)
(* and its own properties; the heap is a sequence, an object's reference   *)
(* is its index.  A property value is a function: an entry of the table    *)
(* above (kind "base", rule = the type it was defined for) or a function   *)
(* the caller supplied (kind "caller").                                    *)
(***************************************************************************)
NoObject == 0                \* undefined / null where an object is expected
ExportsBase == 1             \* exports.base, the first object of every heap

NoFunction == [kind |-> "undefined", rule |-> "", keep |-> {}]
BaseFunction(type) == [kind |-> "base", rule |-> type, keep |-> {}]
CallerFunction(name, keep) == [kind |-> "caller", rule |-> name, keep |-> keep]

\* export const base = {}; base.Program = ...; ...
BaseObject == [proto |-> NoObject, own |-> [t \in BaseTypes |-> BaseFunction(t)]]

\* obj[type]: the own property, else the prototype chain's
RECURSIVE Get(_, _, _)
Get(heap, obj, type) ==
  IF obj = NoObject THEN NoFunction
  ELSE IF type \in DOMAIN heap[obj].own THEN heap[obj].own[type]
  ELSE Get(heap, heap[obj].proto, type)

\* the properties `for (let type in obj)` enumerates: own and inherited
RECURSIVE Keys(_, _)
Keys(heap, obj) ==
  IF obj = NoObject THEN {}
  ELSE DOMAIN heap[obj].own \cup Keys(heap, heap[obj].proto)

\* Object.create(proto): a fresh object at the end of the heap
create(heap, proto) ==
  Append(heap, [proto |-> proto, own |-> [t \in {} |-> NoFunction]])

make_mutatesBase(heap, funcs, base) ==
  LET b == IF base = NoObject THEN ExportsBase ELSE base
      h == create(heap, b)
  IN  [h EXCEPT ![b].own =
         [t \in DOMAIN heap[b].own \cup Keys(heap, funcs) |->
            IF t \in Keys(heap, funcs) THEN Get(heap, funcs, t)
            ELSE heap[b].own[t]]]

make_dropsOverrides(heap, funcs, base) ==
  create(heap, IF base = NoObject THEN ExportsBase ELSE base)

\* make(funcs, base): the heap after the call; the visitor returned is its
\* last object
make(heap, funcs, base) ==
  LET b == IF base = NoObject THEN ExportsBase ELSE base
      h == create(heap, b)
      visitor == Len(h)
  IN  [h EXCEPT ![visitor].own =
         [type \in Keys(heap, funcs) |-> Get(heap, funcs, type)]]

(***************************************************************************)
(* A caller's function for IfStatement, given to `recursive`: it continues *)
(* into the fields named in `keep` and into no other.                      *)
(***************************************************************************)
IfFields == {"test", "consequent", "alternate"}

CallerIfStatement(tree, n, keep) ==
  LET node == tree[n] IN
  (IF "test" \in keep THEN One(node.test, "Expression") ELSE <<>>)
    \o (IF "consequent" \in keep THEN One(node.consequent, "Statement") ELSE <<>>)
    \o (IF "alternate" \in keep THEN Opt(node.alternate, "Statement") ELSE <<>>)

\* f(node, st, c) for a property value f: the continuation calls it makes
Apply(f, tree, n) ==
  CASE f.kind = "base" -> Base(tree, n, f.rule)
    [] f.kind = "caller" -> CallerIfStatement(tree, n, f.keep)

(***************************************************************************)
(* makeTest                                                                *)
(***************************************************************************)
NoTest == [kind |-> "none", s |-> ""]
StringTest(s) == [kind |-> "string", s |-> s]
FunctionTest(s) == [kind |-> "function", s |-> s]

\* a caller's predicate (type, node) => node.end - node.start > 1
CallerTest(type, node) == node.end - node.start > 1

makeTest(test, type, node) ==
  IF test.kind = "string" THEN type = test.s
  ELSE IF test.kind = "none" THEN TRUE
  ELSE CallerTest(type, node)

(***************************************************************************)
(* State.                                                                  *)
(***************************************************************************)
VARIABLES
  pc,         \* "idle", "walking" (inside a traversal primitive), "done"
  op,         \* the primitive that was called
  fx,         \* the tree it was called on: Fixture(fx)
  args,       \* its other arguments
  stack,      \* the activations of `c`, outermost first
  ancestors,  \* ancestor's `ancestors` array
  max,        \* findNodeBefore's `max` (the node of the Found, or NoNode)
  result,     \* the node of the Found returned, NoNode for undefined
  log,        \* history: registry entries called and visitor callbacks fired
  objects,    \* the heap of registries and caller objects
  made,       \* history: the calls of make
  options,    \* the parser's options
  process,    \* process.throwDeprecation, process.traceDeprecation
  node,       \* the node the parser is building
  console,    \* history: messages written by console.error / console.trace
  last        \* history: the last startNodeAt / finishNodeAt call

vars == <<pc, op, fx, args, stack, ancestors, max, result, log, objects, made,
          options, process, node, console, last>>

walkVars == <<pc, op, fx, args, stack, ancestors, max, result, log>>
nodeVars == <<options, process, node, console, last>>

NoArgs ==
  [visitors |-> {}, funcs |-> NoObject, visitor |-> NoObject, pos |-> Null,
   start |-> Null, end |-> Null, test |-> NoTest]

NoNodeRecord ==
  [start |-> Undefined, end |-> Undefined, type |-> "", loc |-> <<>>,
   range |-> <<>>, sourceFile |-> ""]

NoMessages == [error |-> 0, trace |-> 0]

NoCall ==
  [fn |-> "", array |-> FALSE, pos |-> Undefined, posLoc |-> Undefined,
   loc |-> Undefined, before |-> NoNodeRecord, threw |-> FALSE,
   node |-> NoNodeRecord]

IdleWalker ==
  /\ pc = "idle" /\ op = "" /\ fx = 0 /\ args = NoArgs
  /\ stack = <<>> /\ ancestors = <<>> /\ max = NoNode /\ result = NoNode
  /\ log = <<>>

IdleParser ==
  /\ options = [locations |-> FALSE, ranges |-> FALSE, directSourceFile |-> ""]
  /\ process = [throwDeprecation |-> FALSE, traceDeprecation |-> FALSE]
  /\ node = NoNodeRecord /\ console = NoMessages /\ last = NoCall

(***************************************************************************)
(* The walker: src/walk/index.js.                                          *)
(***************************************************************************)
Tree == Fixture(fx)
Top == stack[Len(stack)]
Frame(n, type, todo, isNew) ==
  [node |-> n, type |-> type, todo |-> todo, isNew |-> isNew]

\* the body of a primitive, about to call c(node, state, override)
Entry == Frame(NoNode, "", One(Root, NoOverride), FALSE)

\* the call the running function makes next
NextCall == Head(Top.todo)
Called == [stack EXCEPT ![Len(stack)].todo = Tail(@)]
Popped == SubSeq(stack, 1, Len(stack) - 1)

InC(name) == pc = "walking" /\ op = name /\ Top.todo # <<>>
AfterBase(name) == pc = "walking" /\ op = name /\ Top.todo = <<>> /\ Len(stack) > 1
AtEnd(name) == pc = "walking" /\ op = name /\ Top.todo = <<>> /\ Len(stack) = 1

Event(ev, n, type) == [ev |-> ev, node |-> n, type |-> type, anc |-> ancestors]

Begin(name, f, a) ==
  /\ pc = "idle"
  /\ pc' = "walking" /\ op' = name /\ fx' = f /\ args' = a
  /\ stack' = <<Entry>>
  /\ UNCHANGED <<ancestors, max, result, log, made>>
  /\ UNCHANGED nodeVars

VisitorSets ==
  {{}, {"Expression"}, {"Statement", "Identifier", "Pattern"},
   BaseTypes}

\* simple(node, visitors)
simple ==
  /\ pc = "idle"
  /\ \E f \in 1..NumFixtures, v \in VisitorSets :
    /\ Begin("simple", f, [NoArgs EXCEPT !.visitors = v])
    /\ UNCHANGED objects

\* c(node, st, override), up to the call of base[type]
simple_c ==
  /\ InC("simple")
  /\ LET n == NextCall[1]
         type == TypeOf(Tree, n, NextCall[2])
     IN  /\ stack' = Append(Called,
                       Frame(n, type, Apply(Get(objects, ExportsBase, type), Tree, n), FALSE))
         /\ log' = Append(log, Event("dispatch", n, type))
  /\ UNCHANGED <<pc, op, fx, args, ancestors, max, result, objects, made>>
  /\ UNCHANGED nodeVars

simple_c_found_ignoresOverride ==
  /\ AfterBase("simple")
  /\ log' = IF Tree[Top.node].type \in args.visitors
            THEN Append(log, Event("callback", Top.node, Tree[Top.node].type))
            ELSE log
  /\ stack' = Popped
  /\ UNCHANGED <<pc, op, fx, args, ancestors, max, result, objects, made>>
  /\ UNCHANGED nodeVars

\* base[type] has returned: if (found) found(node, st)
simple_c_found ==
  /\ AfterBase("simple")
  /\ log' = IF Top.type \in args.visitors
            THEN Append(log, Event("callback", Top.node, Top.type))
            ELSE log
  /\ stack' = Popped
  /\ UNCHANGED <<pc, op, fx, args, ancestors, max, result, objects, made>>
  /\ UNCHANGED nodeVars

simple_return ==
  /\ AtEnd("simple")
  /\ pc' = "done"
  /\ UNCHANGED <<op, fx, args, stack, ancestors, max, result, log, objects, made>>
  /\ UNCHANGED nodeVars

\* ancestor(node, visitors)
ancestor ==
  /\ pc = "idle"
  /\ \E f \in 1..NumFixtures, v \in VisitorSets :
    /\ Begin("ancestor", f, [NoArgs EXCEPT !.visitors = v])
    /\ UNCHANGED objects

\* node != ancestors[ancestors.length - 1]
isNew(n) == ancestors = <<>> \/ n # ancestors[Len(ancestors)]

\* c(node, st, override), up to the call of base[type]
ancestor_c ==
  /\ InC("ancestor")
  /\ LET n == NextCall[1]
         type == TypeOf(Tree, n, NextCall[2])
     IN  /\ ancestors' = IF isNew(n) THEN Append(ancestors, n) ELSE ancestors
         /\ stack' = Append(Called,
                       Frame(n, type, Apply(Get(objects, ExportsBase, type), Tree, n),
                             isNew(n)))
         /\ log' = Append(log, Event("dispatch", n, type))
  /\ UNCHANGED <<pc, op, fx, args, max, result, objects, made>>
  /\ UNCHANGED nodeVars

\* base[type] has returned: if (found) found(node, st || ancestors, ancestors);
\* if (isNew) ancestors.pop()
ancestor_c_found ==
  /\ AfterBase("ancestor")
  /\ log' = IF Top.type \in args.visitors
            THEN Append(log, Event("callback", Top.node, Top.type))
            ELSE log
  /\ ancestors' = IF Top.isNew THEN SubSeq(ancestors, 1, Len(ancestors) - 1)
                  ELSE ancestors
  /\ stack' = Popped
  /\ UNCHANGED <<pc, op, fx, args, max, result, objects, made>>
  /\ UNCHANGED nodeVars

ancestor_return ==
  /\ AtEnd("ancestor")
  /\ pc' = "done"
  /\ UNCHANGED <<op, fx, args, stack, ancestors, max, result, log, objects, made>>
  /\ UNCHANGED nodeVars

recursive_usesBase ==
  /\ pc = "idle"
  /\ \E f \in 1..NumFixtures, keep \in SUBSET IfFields :
    /\ Begin("recursive", f,
             [NoArgs EXCEPT !.funcs = Len(objects) + 1, !.visitor = ExportsBase])
    /\ objects' =
         Append(objects,
                [proto |-> NoObject,
                 own |-> [t \in {"IfStatement"} |-> CallerFunction("IfStatement", keep)]])

\* recursive(node, state, funcs, base): let visitor = funcs ? make(funcs, base) : base.
\* The caller passes a fresh object {IfStatement: f}, or no funcs and exports.base.
recursive ==
  \/ pc = "idle" /\ \E f \in 1..NumFixtures, keep \in SUBSET IfFields :
       LET funcs == Len(objects) + 1
           heap == Append(objects,
                     [proto |-> NoObject,
                      own |-> [t \in {"IfStatement"} |->
                                 CallerFunction("IfStatement", keep)]])
       IN  /\ objects' = make(heap, funcs, NoObject)
           /\ Begin("recursive", f,
                    [NoArgs EXCEPT !.funcs = funcs, !.visitor = Len(objects')])
  \/ pc = "idle" /\ \E f \in 1..NumFixtures :
       /\ Begin("recursive", f, [NoArgs EXCEPT !.visitor = ExportsBase])
       /\ UNCHANGED objects

\* c(node, st, override): visitor[override || node.type](node, st, c)
recursive_c ==
  /\ InC("recursive")
  /\ LET n == NextCall[1]
         type == TypeOf(Tree, n, NextCall[2])
     IN  /\ stack' = Append(Called,
                       Frame(n, type, Apply(Get(objects, args.visitor, type), Tree, n),
                             FALSE))
         /\ log' = Append(log, Event("dispatch", n, type))
  /\ UNCHANGED <<pc, op, fx, args, ancestors, max, result, objects, made>>
  /\ UNCHANGED nodeVars

\* the visitor's function has returned
recursive_c_return ==
  /\ AfterBase("recursive")
  /\ stack' = Popped
  /\ UNCHANGED <<pc, op, fx, args, ancestors, max, result, log, objects, made>>
  /\ UNCHANGED nodeVars

recursive_return ==
  /\ AtEnd("recursive")
  /\ pc' = "done"
  /\ UNCHANGED <<op, fx, args, stack, ancestors, max, result, log, objects, made>>
  /\ UNCHANGED nodeVars

(***************************************************************************)
(* The searches.  Their arguments are drawn from the tree's own offsets    *)
(* and from a few tests: absent, type names and a caller's predicate.      *)
(***************************************************************************)
Tests ==
  {NoTest, FunctionTest("wide")}
    \cup {StringTest(t) : t \in {"Identifier", "CallExpression", "Statement",
                                 "Expression", "MemberExpression", "Property"}}

Positions(tree) == tree[Root].start .. tree[Root].end
Offsets(tree) ==
  {tree[n].start : n \in DOMAIN tree} \cup {tree[n].end : n \in DOMAIN tree}

\* throw new Found(node, st), caught by the primitive's own try: it returns e
Throw(n) ==
  /\ pc' = "done"
  /\ result' = n
  /\ stack' = <<>>

\* findNodeAt(node, start, end, test)
findNodeAt ==
  /\ pc = "idle"
  /\ \E f \in 1..NumFixtures, t \in Tests :
    \E st \in Offsets(Fixture(f)) \cup {Null}, e \in Offsets(Fixture(f)) \cup {Null} :
      /\ Begin("findNodeAt", f, [NoArgs EXCEPT !.start = st, !.end = e, !.test = t])
      /\ UNCHANGED objects

findNodeAt_c_prunesInside ==
  /\ InC("findNodeAt")
  /\ LET n == NextCall[1]
         type == TypeOf(Tree, n, NextCall[2])
         descend == /\ (args.start = Null \/ Tree[n].start >= args.start)
                    /\ (args.end = Null \/ Tree[n].end <= args.end)
     IN  /\ stack' = Append(Called,
                       Frame(n, type,
                             IF descend
                             THEN Apply(Get(objects, ExportsBase, type), Tree, n)
                             ELSE <<>>,
                             FALSE))
         /\ log' = IF descend THEN Append(log, Event("dispatch", n, type)) ELSE log
  /\ UNCHANGED <<pc, op, fx, args, ancestors, max, result, objects, made>>
  /\ UNCHANGED nodeVars

\* c(node, st, override), up to the end of the first `if`
findNodeAt_c ==
  /\ InC("findNodeAt")
  /\ LET n == NextCall[1]
         type == TypeOf(Tree, n, NextCall[2])
         descend == /\ (args.start = Null \/ Tree[n].start <= args.start)
                    /\ (args.end = Null \/ Tree[n].end >= args.end)
     IN  /\ stack' = Append(Called,
                       Frame(n, type,
                             IF descend
                             THEN Apply(Get(objects, ExportsBase, type), Tree, n)
                             ELSE <<>>,
                             FALSE))
         /\ log' = IF descend THEN Append(log, Event("dispatch", n, type)) ELSE log
  /\ UNCHANGED <<pc, op, fx, args, ancestors, max, result, objects, made>>
  /\ UNCHANGED nodeVars

\* the second `if` of c: throw new Found(node, st), or return
findNodeAt_c_test ==
  /\ AfterBase("findNodeAt")
  /\ IF /\ (args.start = Null \/ Tree[Top.node].start = args.start)
        /\ (args.end = Null \/ Tree[Top.node].end = args.end)
        /\ makeTest(args.test, Top.type, Tree[Top.node])
     THEN Throw(Top.node) /\ UNCHANGED <<op, fx, args>>
     ELSE stack' = Popped /\ UNCHANGED <<pc, op, fx, args, result>>
  /\ UNCHANGED <<ancestors, max, log, objects, made>>
  /\ UNCHANGED nodeVars

\* nothing was thrown: the result is undefined
findNodeAt_return ==
  /\ AtEnd("findNodeAt")
  /\ pc' = "done"
  /\ UNCHANGED <<op, fx, args, stack, ancestors, max, result, log, objects, made>>
  /\ UNCHANGED nodeVars

\* findNodeAround(node, pos, test)
findNodeAround ==
  /\ pc = "idle"
  /\ \E f \in 1..NumFixtures, t \in Tests :
    \E p \in Positions(Fixture(f)) :
      /\ Begin("findNodeAround", f, [NoArgs EXCEPT !.pos = p, !.test = t])
      /\ UNCHANGED objects

\* c(node, st, override), up to the call of base[type]
findNodeAround_c ==
  /\ InC("findNodeAround")
  /\ LET n == NextCall[1]
         type == TypeOf(Tree, n, NextCall[2])
     IN  IF Tree[n].start > args.pos \/ Tree[n].end < args.pos
         THEN stack' = Called /\ UNCHANGED log
         ELSE /\ stack' = Append(Called,
                            Frame(n, type,
                                  Apply(Get(objects, ExportsBase, type), Tree, n), FALSE))
              /\ log' = Append(log, Event("dispatch", n, type))
  /\ UNCHANGED <<pc, op, fx, args, ancestors, max, result, objects, made>>
  /\ UNCHANGED nodeVars

findNodeAround_c_test_outermost ==
  /\ AfterBase("findNodeAround")
  /\ IF makeTest(args.test, Top.type, Tree[Top.node]) /\ Len(stack) = 2
     THEN Throw(Top.node) /\ UNCHANGED <<op, fx, args>>
     ELSE stack' = Popped /\ UNCHANGED <<pc, op, fx, args, result>>
  /\ UNCHANGED <<ancestors, max, log, objects, made>>
  /\ UNCHANGED nodeVars

\* base[type] has returned: if (test(type, node)) throw new Found(node, st)
findNodeAround_c_test ==
  /\ AfterBase("findNodeAround")
  /\ IF makeTest(args.test, Top.type, Tree[Top.node])
     THEN Throw(Top.node) /\ UNCHANGED <<op, fx, args>>
     ELSE stack' = Popped /\ UNCHANGED <<pc, op, fx, args, result>>
  /\ UNCHANGED <<ancestors, max, log, objects, made>>
  /\ UNCHANGED nodeVars

findNodeAround_return ==
  /\ AtEnd("findNodeAround")
  /\ pc' = "done"
  /\ UNCHANGED <<op, fx, args, stack, ancestors, max, result, log, objects, made>>
  /\ UNCHANGED nodeVars

\* findNodeBefore(node, pos, test)
findNodeBefore ==
  /\ pc = "idle"
  /\ \E f \in 1..NumFixtures, t \in Tests :
    \E p \in Positions(Fixture(f)) :
      /\ Begin("findNodeBefore", f, [NoArgs EXCEPT !.pos = p, !.test = t])
      /\ UNCHANGED objects

findNodeBefore_c_lastWins ==
  /\ InC("findNodeBefore")
  /\ LET n == NextCall[1]
         type == TypeOf(Tree, n, NextCall[2])
     IN  IF Tree[n].start > args.pos
         THEN stack' = Called /\ UNCHANGED <<max, log>>
         ELSE /\ max' = IF /\ Tree[n].end <= args.pos
                           /\ makeTest(args.test, type, Tree[n])
                        THEN n ELSE max
              /\ stack' = Append(Called,
                            Frame(n, type,
                                  Apply(Get(objects, ExportsBase, type), Tree, n), FALSE))
              /\ log' = Append(log, Event("dispatch", n, type))
  /\ UNCHANGED <<pc, op, fx, args, ancestors, result, objects, made>>
  /\ UNCHANGED nodeVars

findNodeBefore_c_pruneByEnd ==
  /\ InC("findNodeBefore")
  /\ LET n == NextCall[1]
         type == TypeOf(Tree, n, NextCall[2])
     IN  IF Tree[n].end > args.pos
         THEN stack' = Called /\ UNCHANGED <<max, log>>
         ELSE /\ max' = IF /\ Tree[n].end <= args.pos
                           /\ (max = NoNode \/ Tree[max].end < Tree[n].end)
                           /\ makeTest(args.test, type, Tree[n])
                        THEN n ELSE max
              /\ stack' = Append(Called,
                            Frame(n, type,
                                  Apply(Get(objects, ExportsBase, type), Tree, n), FALSE))
              /\ log' = Append(log, Event("dispatch", n, type))
  /\ UNCHANGED <<pc, op, fx, args, ancestors, result, objects, made>>
  /\ UNCHANGED nodeVars

\* c(node, st, override): the pruning, the update of max, the call of base[type]
findNodeBefore_c ==
  /\ InC("findNodeBefore")
  /\ LET n == NextCall[1]
         type == TypeOf(Tree, n, NextCall[2])
     IN  IF Tree[n].start > args.pos
         THEN stack' = Called /\ UNCHANGED <<max, log>>
         ELSE /\ max' = IF /\ Tree[n].end <= args.pos
                           /\ (max = NoNode \/ Tree[max].end < Tree[n].end)
                           /\ makeTest(args.test, type, Tree[n])
                        THEN n ELSE max
              /\ stack' = Append(Called,
                            Frame(n, type,
                                  Apply(Get(objects, ExportsBase, type), Tree, n), FALSE))
              /\ log' = Append(log, Event("dispatch", n, type))
  /\ UNCHANGED <<pc, op, fx, args, ancestors, result, objects, made>>
  /\ UNCHANGED nodeVars

\* base[type] has returned, and c with it
findNodeBefore_c_return ==
  /\ AfterBase("findNodeBefore")
  /\ stack' = Popped
  /\ UNCHANGED <<pc, op, fx, args, ancestors, max, result, log, objects, made>>
  /\ UNCHANGED nodeVars

\* return max
findNodeBefore_return ==
  /\ AtEnd("findNodeBefore")
  /\ pc' = "done"
  /\ result' = max
  /\ UNCHANGED <<op, fx, args, stack, ancestors, max, log, objects, made>>
  /\ UNCHANGED nodeVars

WalkInit ==
  /\ IdleWalker /\ IdleParser
  /\ objects = <<BaseObject>>
  /\ made = <<>>

WalkNext ==
  \/ simple \/ simple_c \/ simple_c_found \/ simple_return
  \/ ancestor \/ ancestor_c \/ ancestor_c_found \/ ancestor_return
  \/ recursive \/ recursive_c \/ recursive_c_return \/ recursive_return
  \/ findNodeAt \/ findNodeAt_c \/ findNodeAt_c_test \/ findNodeAt_return
  \/ findNodeAround \/ findNodeAround_c \/ findNodeAround_c_test
  \/ findNodeAround_return
  \/ findNodeBefore \/ findNodeBefore_c \/ findNodeBefore_c_return
  \/ findNodeBefore_return

Spec == WalkInit /\ [][WalkNext]_vars

(***************************************************************************)
(* Registry derivation on its own: callers derive registries from any      *)
(* objects on the heap.                                                    *)
(***************************************************************************)
CallerObjects ==
  << [proto |-> NoObject,
      own |-> [t \in {"IfStatement"} |-> CallerFunction("f1", {})]],
     [proto |-> NoObject,
      own |-> [t \in {"Expression"} |-> CallerFunction("f2", {})]],
     [proto |-> NoObject,
      own |-> [t \in {"IfStatement", "Identifier"} |-> CallerFunction("f3", {})]] >>

\* visitor = make(funcs, base), base possibly omitted
makeCall ==
  /\ Len(made) < MaxRegistries
  /\ \E funcs \in DOMAIN objects, base \in DOMAIN objects \cup {NoObject} :
       /\ objects' = make(objects, funcs, base)
       /\ made' = Append(made,
                    [visitor |-> Len(objects) + 1, funcs |-> funcs,
                     base |-> IF base = NoObject THEN ExportsBase ELSE base,
                     before |-> objects])
  /\ UNCHANGED walkVars
  /\ UNCHANGED nodeVars

\* the heap holds exports.base and three objects of functions a caller wrote
MakeInit ==
  /\ IdleWalker /\ IdleParser
  /\ objects = <<BaseObject>> \o CallerObjects
  /\ made = <<>>

MakeNext == makeCall

SpecMake == MakeInit /\ [][MakeNext]_vars

(***************************************************************************)
(* The node lifecycle: node.js.  `pos` is a number (array = FALSE) or a    *)
(* two-element array [pos, loc]; a location is abstracted to the column it *)
(* names, Undefined when the argument is omitted.                          *)
(***************************************************************************)
Number(p) == [array |-> FALSE, elems |-> <<p>>]
Array(p, l) == [array |-> TRUE, elems |-> <<p, l>>]

\* new SourceLocation(this, loc): location.js
SourceLocation(start) == [start |-> start, end |-> Undefined]

Thrown(nd) == [threw |-> TRUE, node |-> nd, error |-> 0, trace |-> 0]
Returned(nd, e, t) == [threw |-> FALSE, node |-> nd, error |-> e, trace |-> t]

\* the statements of startNodeAt after the `if (Array.isArray(pos))` block
StartedNode(opts, pos, loc) ==
  [NoNodeRecord EXCEPT
     !.start = pos,
     !.loc = IF opts.locations THEN <<SourceLocation(loc)>> ELSE <<>>,
     !.sourceFile = opts.directSourceFile,
     !.range = IF opts.ranges THEN <<pos, 0>> ELSE <<>>]

\* the statements of finishNodeAt after the `if (Array.isArray(pos))` block
FinishedNode(opts, nd, pos, loc) ==
  [nd EXCEPT
     !.end = pos,
     !.loc = IF opts.locations THEN <<[nd.loc[1] EXCEPT !.end = loc]>> ELSE @,
     !.range = IF opts.ranges THEN <<nd.range[1], pos>> ELSE @]

startNodeAt_swapped(opts, proc, pos, loc) ==
  IF pos.array
  THEN IF opts.locations /\ loc = Undefined
       THEN IF proc.throwDeprecation THEN Thrown(NoNodeRecord)
            ELSE Returned(StartedNode(opts, pos.elems[2], pos.elems[1]),
                          IF proc.traceDeprecation THEN 0 ELSE 1,
                          IF proc.traceDeprecation THEN 1 ELSE 0)
       ELSE Thrown(NoNodeRecord)
  ELSE Returned(StartedNode(opts, pos.elems[1], loc), 0, 0)

\* pp.startNodeAt(pos, loc): what it returns and what it writes
startNodeAt(opts, proc, pos, loc) ==
  IF pos.array
  THEN IF opts.locations /\ loc = Undefined
       THEN LET warned == FALSE IN
            IF ~warned
            THEN IF proc.throwDeprecation THEN Thrown(NoNodeRecord)
                 ELSE Returned(StartedNode(opts, pos.elems[1], pos.elems[2]),
                               IF proc.traceDeprecation THEN 0 ELSE 1,
                               IF proc.traceDeprecation THEN 1 ELSE 0)
            ELSE Returned(StartedNode(opts, pos.elems[1], pos.elems[2]), 0, 0)
       ELSE Thrown(NoNodeRecord)
  ELSE Returned(StartedNode(opts, pos.elems[1], loc), 0, 0)

\* pp.finishNodeAt(node, type, pos, loc): node.type is set before anything
\* can throw
finishNodeAt(opts, proc, nd, type, pos, loc) ==
  LET typed == [nd EXCEPT !.type = type] IN
  IF pos.array
  THEN IF opts.locations /\ loc = Undefined
       THEN LET warned == FALSE IN
            IF ~warned
            THEN IF proc.throwDeprecation THEN Thrown(typed)
                 ELSE Returned(FinishedNode(opts, typed, pos.elems[1], pos.elems[2]),
                               IF proc.traceDeprecation THEN 0 ELSE 1,
                               IF proc.traceDeprecation THEN 1 ELSE 0)
            ELSE Returned(FinishedNode(opts, typed, pos.elems[1], pos.elems[2]), 0, 0)
       ELSE Thrown(typed)
  ELSE Returned(FinishedNode(opts, typed, pos.elems[1], loc), 0, 0)

\* the location of offset p: column p of the line, kept apart from offsets
LocOf(p) == 10 + p

\* the calls a parser plugin makes at offset p: (p, loc), (p), ([p, loc]),
\* ([p, loc], loc)
CallForms(p) ==
  { <<Number(p), LocOf(p)>>, <<Number(p), Undefined>>,
    <<Array(p, LocOf(p)), Undefined>>, <<Array(p, LocOf(p)), LocOf(p)>> }

Warnings == console.error + console.trace

Called_(fn, form, nd, r) ==
  [fn |-> fn, array |-> form[1].array, pos |-> form[1].elems[1],
   posLoc |-> IF form[1].array THEN form[1].elems[2] ELSE Undefined,
   loc |-> form[2], before |-> nd, threw |-> r.threw, node |-> r.node]

\* a call of this.startNodeAt(pos, loc)
StartNodeAt ==
  /\ Warnings < MaxWarnings
  /\ \E p \in 0..MaxOffset :
       \E form \in CallForms(p) :
         LET r == startNodeAt(options, process, form[1], form[2]) IN
         /\ node' = IF r.threw THEN node ELSE r.node
         /\ console' = [error |-> console.error + r.error,
                        trace |-> console.trace + r.trace]
         /\ last' = Called_("startNodeAt", form, NoNodeRecord, r)
  /\ UNCHANGED <<options, process, objects, made>>
  /\ UNCHANGED walkVars

\* a call of this.finishNodeAt(node, type, pos, loc) on the node being built
FinishNodeAt ==
  /\ Warnings < MaxWarnings
  /\ node.start # Undefined
  /\ \E p \in 0..MaxOffset, type \in {"Identifier"} :
       \E form \in CallForms(p) :
         LET r == finishNodeAt(options, process, node, type, form[1], form[2]) IN
         /\ node' = r.node
         /\ console' = [error |-> console.error + r.error,
                        trace |-> console.trace + r.trace]
         /\ last' = Called_("finishNodeAt", form, node, r)
  /\ UNCHANGED <<options, process, objects, made>>
  /\ UNCHANGED walkVars

NodeInit ==
  /\ IdleWalker
  /\ objects = <<>> /\ made = <<>>
  /\ options \in [locations : BOOLEAN, ranges : BOOLEAN,
                  directSourceFile : {"", "a.js"}]
  /\ process \in [throwDeprecation : BOOLEAN, traceDeprecation : BOOLEAN]
  /\ node = NoNodeRecord /\ console = NoMessages /\ last = NoCall

NodeNext == StartNodeAt \/ FinishNodeAt

SpecNode == NodeInit /\ [][NodeNext]_vars

(***************************************************************************)
(* What the properties below speak of.                                     *)
(***************************************************************************)
\* The (node, type) pairings the registry's rules generate from a dispatch of
\* n under override ov, and those strictly below a pairing.
RECURSIVE Reach(_, _, _)
Reach(tree, n, ov) ==
  LET type == TypeOf(tree, n, ov)
      calls == Base(tree, n, type)
  IN  {<<n, type>>}
        \cup UNION {Reach(tree, calls[i][1], calls[i][2]) : i \in DOMAIN calls}

Below(tree, n, type) ==
  LET calls == Base(tree, n, type)
  IN  UNION {Reach(tree, calls[i][1], calls[i][2]) : i \in DOMAIN calls}

Pairings(tree) == Reach(tree, Root, NoOverride)

Callbacks == SelectSeq(log, LAMBDA e : e.ev = "callback")
Pair(e) == <<e.node, e.type>>
Dispatched == {Pair(log[i]) : i \in {j \in DOMAIN log : log[j].ev = "dispatch"}}

NoDuplicates(seq) == \A i, j \in DOMAIN seq : seq[i] = seq[j] => i = j

Contains(tree, n, pos) == tree[n].start <= pos /\ pos <= tree[n].end

\* A node of the tree satisfies a test if the test accepts it under its own
\* type or under a type the rules dispatch it with.
TypesOf(tree, n) ==
  {tree[n].type} \cup {q[2] : q \in {r \in Pairings(tree) : r[1] = n}}
Satisfies(tree, n, test) ==
  \E type \in TypesOf(tree, n) : makeTest(test, type, tree[n])

\* The pairings a search can be shown: dispatched ones the test accepts.
Matches(tree, test) ==
  {q \in Pairings(tree) : makeTest(test, q[2], tree[q[1]])}

(***************************************************************************)
(* C1.  simple fires the visitor callback of a (node, type) pairing        *)
(* exactly once per pairing the rules generate (and for nothing else),     *)
(* and only after the registry entry of the pairing has returned: every    *)
(* pairing below it has been dispatched, and the callbacks of those with   *)
(* a visitor have fired.                                                   *)
(***************************************************************************)
C1_SimpleCallbacks ==
  op = "simple" =>
    /\ \A k \in DOMAIN log :
         log[k].ev = "callback" =>
           /\ Pair(log[k]) \in Pairings(Tree)
           /\ log[k].type \in args.visitors
           /\ \A q \in Below(Tree, log[k].node, log[k].type) :
                /\ \E j \in 1..(k - 1) :
                     log[j].ev = "dispatch" /\ Pair(log[j]) = q
                /\ q[2] \in args.visitors =>
                     \E j \in 1..(k - 1) :
                       log[j].ev = "callback" /\ Pair(log[j]) = q
    /\ NoDuplicates(Callbacks)
    /\ pc = "done" =>
         \A q \in Pairings(Tree) :
           q[2] \in args.visitors =>
             \E i \in DOMAIN Callbacks : Pair(Callbacks[i]) = q

\* simple has finished a walk in which a node got callbacks under two types
C1_Witness ==
  /\ pc = "done" /\ op = "simple"
  /\ \E i, j \in DOMAIN Callbacks :
       /\ i < j
       /\ Callbacks[i].node = Callbacks[j].node
       /\ Callbacks[i].type # Callbacks[j].type

(***************************************************************************)
(* C2.  In ancestor, when a callback is invoked for node N the ancestor    *)
(* sequence has as many elements as N's depth in the tree (root = 1), its  *)
(* last element is N and no node is in it twice.                           *)
(***************************************************************************)
C2_AncestorDepth ==
  op = "ancestor" =>
    \A k \in DOMAIN log :
      log[k].ev = "callback" =>
        /\ Len(log[k].anc) = Depth(Tree, log[k].node)
        /\ log[k].anc[Len(log[k].anc)] = log[k].node
        /\ NoDuplicates(log[k].anc)

(***************************************************************************)
(* C3.  In recursive, with a caller's function for IfStatement, no         *)
(* function is called on a node of a branch of an IfStatement that the     *)
(* caller's function did not continue into.                                *)
(***************************************************************************)
IfBranch(tree, n, field) ==
  CASE field = "test" -> tree[n].test
    [] field = "consequent" -> tree[n].consequent
    [] field = "alternate" -> tree[n].alternate

C3_RecursiveOmitted ==
  (op = "recursive" /\ args.funcs # NoObject) =>
    LET keep == objects[args.funcs].own["IfStatement"].keep IN
    \A n \in DOMAIN Tree :
      Tree[n].type = "IfStatement" =>
        \A field \in IfFields \ keep :
          IfBranch(Tree, n, field) # NoNode =>
            \A k \in DOMAIN log :
              log[k].node \notin Subtree(Tree, IfBranch(Tree, n, field))

\* a walk of `if(a)b(c);else d` has finished whose IfStatement function left
\* out the alternate: the consequent's call was reached
C3_Witness ==
  /\ pc = "done" /\ op = "recursive" /\ fx = 1 /\ args.funcs # NoObject
  /\ objects[args.funcs].own["IfStatement"].keep = {"test", "consequent"}
  /\ \E k \in DOMAIN log : log[k].node = 5 /\ log[k].type = "CallExpression"

(***************************************************************************)
(* C4.  findNodeAround returns the innermost match: the node returned      *)
(* contains pos and satisfies test, no proper descendant of it contains    *)
(* pos and satisfies test, the first match halts the search, and the       *)
(* result is absent when no node containing pos satisfies test.            *)
(***************************************************************************)
C4_AroundInnermost ==
  (op = "findNodeAround" /\ pc = "done") =>
    /\ stack # <<>> => result = NoNode
    /\ result # NoNode =>
         /\ Contains(Tree, result, args.pos)
         /\ Satisfies(Tree, result, args.test)
         /\ \A d \in Descendants(Tree, result) :
              ~(Contains(Tree, d, args.pos) /\ Satisfies(Tree, d, args.test))
    /\ (\A n \in DOMAIN Tree :
          ~(Contains(Tree, n, args.pos) /\ Satisfies(Tree, n, args.test)))
         => result = NoNode

(***************************************************************************)
(* C4, amended.  As C4, with "no proper descendant of it that the          *)
(* registry's rules dispatch contains pos and is accepted by test under a  *)
(* type it is dispatched with".                                            *)
(***************************************************************************)
C4_AroundInnermostDispatched ==
  (op = "findNodeAround" /\ pc = "done") =>
    /\ stack # <<>> => result = NoNode
    /\ result # NoNode =>
         /\ Contains(Tree, result, args.pos)
         /\ \E q \in Matches(Tree, args.test) : q[1] = result
         /\ \A q \in Matches(Tree, args.test) :
              q[1] \in Descendants(Tree, result)
                => ~Contains(Tree, q[1], args.pos)
    /\ (\A n \in DOMAIN Tree :
          ~(Contains(Tree, n, args.pos) /\ Satisfies(Tree, n, args.test)))
         => result = NoNode

\* f(g(x)).y, pos = 4, "CallExpression": the inner call g(x) is returned
C4_Witness ==
  /\ pc = "done" /\ op = "findNodeAround" /\ fx = 3
  /\ args.pos = 4 /\ args.test = StringTest("CallExpression")
  /\ result = 6

(***************************************************************************)
(* C5.  findNodeBefore returns a node that satisfies test and ends at or   *)
(* before pos, whose end is the largest among all nodes of the tree that   *)
(* satisfy test and end at or before pos; it returns absent exactly when   *)
(* there is no such node.                                                  *)
(***************************************************************************)
C5_BeforeLargestEnd ==
  (op = "findNodeBefore" /\ pc = "done") =>
    LET cands == {n \in DOMAIN Tree :
                    Satisfies(Tree, n, args.test) /\ Tree[n].end <= args.pos}
    IN  /\ result # NoNode =>
             /\ result \in cands
             /\ \A n \in cands : Tree[n].end <= Tree[result].end
        /\ result = NoNode <=> cands = {}

(***************************************************************************)
(* C5, amended.  As C5, among the nodes the registry's rules dispatch,     *)
(* each tested under the types it is dispatched with.                      *)
(***************************************************************************)
C5_BeforeLargestEndDispatched ==
  (op = "findNodeBefore" /\ pc = "done") =>
    LET cands == {q[1] : q \in {r \in Matches(Tree, args.test) :
                                  Tree[r[1]].end <= args.pos}}
    IN  /\ result # NoNode =>
             /\ result \in cands
             /\ \A n \in cands : Tree[n].end <= Tree[result].end
        /\ result = NoNode <=> cands = {}

\* a.b;var c;d() with pos = 11 and "Statement": the declaration ending at 10
\* is returned, though the statement d() that ends at 13 was visited
C5_Witness ==
  /\ pc = "done" /\ op = "findNodeBefore" /\ fx = 4
  /\ args.pos = 11 /\ args.test = StringTest("Statement")
  /\ result = 6
  /\ <<9, "Statement">> \in Dispatched

(***************************************************************************)
(* C6.  findNodeAt(tree, s, e, T) returns a node of the tree with          *)
(* start = s, end = e (null: any) and type = T whenever the tree has one,  *)
(* whatever field it sits in, and absent when it has none.                 *)
(***************************************************************************)
ConcreteTests ==
  {StringTest(t) : t \in {"Identifier", "CallExpression", "MemberExpression",
                          "Property"}}

AtBounds(tree, n) ==
  /\ (args.start = Null \/ tree[n].start = args.start)
  /\ (args.end = Null \/ tree[n].end = args.end)

C6_AtFindsEveryNode ==
  (op = "findNodeAt" /\ pc = "done" /\ args.test \in ConcreteTests) =>
    LET nodes == {n \in DOMAIN Tree :
                    AtBounds(Tree, n) /\ Tree[n].type = args.test.s}
    IN  /\ nodes # {} => result \in nodes
        /\ nodes = {} => result = NoNode

(***************************************************************************)
(* C6, amended.  findNodeAt returns a node with start = s, end = e (null:  *)
(* any) that the registry's rules dispatch under a type accepted by the    *)
(* test whenever there is one, and absent when there is none.              *)
(***************************************************************************)
C6_AtFindsDispatched ==
  (op = "findNodeAt" /\ pc = "done") =>
    LET nodes == {q[1] : q \in {r \in Matches(Tree, args.test) :
                                  AtBounds(Tree, r[1])}}
    IN  /\ nodes # {} => result \in nodes
        /\ nodes = {} => result = NoNode

\* f(g(x)).y: findNodeAt(tree, 2, 3, "Identifier") has returned g
C6_Witness ==
  /\ pc = "done" /\ op = "findNodeAt" /\ fx = 3
  /\ args.start = 2 /\ args.end = 3 /\ args.test = StringTest("Identifier")
  /\ result = 7

(***************************************************************************)
(* C7.  After visitor = make(funcs, base), looking a type up in visitor    *)
(* yields funcs' function if funcs has the type and base's entry for it    *)
(* otherwise, also when base is itself derived; no object that existed     *)
(* before the call, base among them, has changed.                          *)
(***************************************************************************)
C7_MakeLayers ==
  \A i \in DOMAIN made :
    LET r == made[i] IN
    /\ \A t \in BaseTypes \cup {"NoSuchType"} :
         Get(objects, r.visitor, t) =
           IF t \in Keys(r.before, r.funcs)
           THEN Get(r.before, r.funcs, t)
           ELSE Get(r.before, r.base, t)
    /\ \A o \in DOMAIN r.before : objects[o] = r.before[o]

\* a registry derived from a derived registry: one type comes from the new
\* overrides, one from the layer in between, one from exports.base
C7_Witness ==
  \E i, j \in DOMAIN made :
    /\ made[i].base = made[j].visitor
    /\ made[j].base = ExportsBase
    /\ Get(objects, made[i].visitor, "Expression").rule = "f2"
    /\ Get(objects, made[i].visitor, "IfStatement").rule = "f1"
    /\ "IfStatement" \notin Keys(objects, made[i].funcs)
    /\ Get(objects, made[i].visitor, "Program") = BaseFunction("Program")

(***************************************************************************)
(* C8.  The deprecated call startNodeAt([p, loc]), no separate loc, under  *)
(* the default configuration (no option set, strict deprecation off)       *)
(* succeeds and returns the node startNodeAt(p, loc) returns; under strict *)
(* deprecation it fails.  The same for finishNodeAt(node, type, [p, loc]). *)
(***************************************************************************)
DeprecatedCall == last.fn # "" /\ last.array /\ last.loc = Undefined

\* what the call with a bare offset and an explicit location returns
ModernNode ==
  IF last.fn = "startNodeAt"
  THEN startNodeAt(options, process, Number(last.pos), last.posLoc).node
  ELSE finishNodeAt(options, process, last.before, last.node.type,
                    Number(last.pos), last.posLoc).node

DefaultOptions ==
  options = [locations |-> FALSE, ranges |-> FALSE, directSourceFile |-> ""]

C8_DeprecatedDefault ==
  DeprecatedCall =>
    /\ (DefaultOptions /\ ~process.throwDeprecation) =>
         ~last.threw /\ last.node = ModernNode
    /\ process.throwDeprecation => last.threw

(***************************************************************************)
(* C8, amended.  With the `locations` option enabled and strict            *)
(* deprecation off, the deprecated call succeeds and returns the node the  *)
(* call with (p, loc) returns; under strict deprecation it fails.          *)
(***************************************************************************)
C8_DeprecatedWithLocations ==
  DeprecatedCall =>
    /\ (options.locations /\ ~process.throwDeprecation) =>
         ~last.threw /\ last.node = ModernNode
    /\ process.throwDeprecation => last.threw

\* a deprecated startNodeAt([1, loc]) has returned a node
C8_Witness ==
  /\ DeprecatedCall /\ last.fn = "startNodeAt" /\ last.pos = 1
  /\ options.locations /\ ~process.throwDeprecation
  /\ ~last.threw /\ last.node.start = 1

(***************************************************************************)
(* C9.  Under non-strict configuration the deprecation warning is emitted  *)
(* at most once over any sequence of deprecated calls.                     *)
(***************************************************************************)
C9_WarnsOnce ==
  ~process.throwDeprecation => Warnings <= 1

(***************************************************************************)
(* C10.  findNodeBefore never short-circuits and never prunes: each call   *)
(* dispatches every pairing the registry's rules reach, subtrees after pos *)
(* included, and returns only when the traversal is exhausted.             *)
(***************************************************************************)
C10_BeforeVisitsAll ==
  op = "findNodeBefore" =>
    /\ pc = "walking" => result = NoNode
    /\ pc = "done" => Top.todo = <<>> /\ Dispatched = Pairings(Tree)

(***************************************************************************)
(* C10, amended.  findNodeBefore never short-circuits on a match: each     *)
(* call dispatches every pairing the rules reach whose node starts at or   *)
(* before pos, skips those whose node starts after pos, and returns only   *)
(* when the traversal is exhausted.                                        *)
(***************************************************************************)
C10_BeforeVisitsAllStartingBefore ==
  op = "findNodeBefore" =>
    /\ pc = "walking" => result = NoNode
    /\ pc = "done" =>
         /\ Top.todo = <<>>
         /\ Dispatched = {q \in Pairings(Tree) : Tree[q[1]].start <= args.pos}

\* a.b;var c;d() with pos = 5: a match was kept early (a.b;), the declaration
\* was still visited, the statement d() that starts at 10 was not
C10_Witness ==
  /\ pc = "done" /\ op = "findNodeBefore" /\ fx = 4 /\ args.pos = 5
  /\ args.test = StringTest("Statement")
  /\ result = 2
  /\ <<6, "VariableDeclaration">> \in Dispatched
  /\ <<9, "Statement">> \notin Dispatched

=============================================================================
